---- MODULE Spec2Model ----
(***************************************************************************)
(* A model of DynamoDBAdapter (schedulino/aws-dynamodb-adapter).           *)
(*                                                                         *)
(* The repository holds three revisions of the adapter class:              *)
(*   "js"  : src/unnamed/part_000            (the JavaScript original)     *)
(*   "tsA" : src/src/index.ts, lines 1-476   (TypeScript, request-shaped   *)
(*                                            arguments)                   *)
(*   "tsB" : src/src/index.ts, lines 478-942 (TypeScript, key/item         *)
(*                                            arguments)                   *)
(* The variable `variant` fixes, per behaviour, which revision the handle  *)
(* runs; every operation is translated once per revision where the         *)
(* revisions differ.                                                       *)
(*                                                                         *)
(* JavaScript values are records [type, val]; JavaScript objects whose     *)
(* key order matters (items, keys, results) are sequences of entries       *)
(* [k, v] in insertion order; request parameter objects and placeholder    *)
(* maps are functions from property name to value.  A string the code      *)
(* builds by concatenation is a Text: the sequence of the fragments that   *)
(* were concatenated, and Flatten gives the string itself.                 *)
(***************************************************************************)
EXTENDS Integers, Sequences, FiniteSets, TLC

VARIABLES
    variant,     \* the revision of the class the handle runs
    tableName,   \* this.tableName
    schema,      \* this.schema
    pc,          \* "idle", "awaiting" (the store request is in flight) or "done"
    call,        \* the operation in progress and its arguments as the caller passed them
    item,        \* the caller's item object, as the call has mutated it so far
    request,     \* the requests the call has handed to the store client
    response,    \* how the store answered the request
    outcome,     \* how the call's promise settled
    uuidNext,    \* the number of the next identifier the generator hands out
    issued,      \* the generated identifiers create has written as item ids, in order
    log,         \* the entries the logger has taken since the handle was last idle
    rival        \* a second call that runs while the first awaits the store

vars == <<variant, tableName, schema, pc, call, item, request, response, outcome, uuidNext,
          issued, log, rival>>

(***************************************************************************)
(* Bounds of the model.                                                    *)
(***************************************************************************)
\* the largest number of attributes in a caller's item
MaxFields == 2
\* the readings of the clock a call can see
MaxClock == 2
\* the number of identifiers the generator hands out before the model stops
MaxIds == 2
\* the largest number of fields in a projection field list
MaxProjFields == 3
\* the largest number of attributes or fields a call takes where every
\* operation runs on one handle
MaxLightFields == 1

(***************************************************************************)
(* JavaScript values.                                                      *)
(***************************************************************************)
Str(s) == [type |-> "string", val |-> s]

Num(s) == [type |-> "number", val |-> s]

Undefined == [type |-> "undefined", val |-> "undefined"]

\* an object or an array, `o` being its content
Obj(o) == [type |-> "object", val |-> o]

\* ToBoolean: '', 0, false, null and undefined are falsy, all else is truthy
Truthy(v) ==
    CASE v.type = "string" -> v.val # ""
      [] v.type = "number" -> v.val # "0"
      [] v.type = "boolean" -> v.val # "false"
      [] v.type = "null" -> FALSE
      [] v.type = "undefined" -> FALSE
      [] OTHER -> TRUE

\* new Date().toISOString() at clock reading t
ISOString(t) == Str("T" \o ToString(t))

(***************************************************************************)
(* Text: fragments in concatenation order.                                 *)
(***************************************************************************)
RECURSIVE Flatten(_)
Flatten(text) ==
    IF text = <<>> THEN "" ELSE Head(text) \o Flatten(Tail(text))

(***************************************************************************)
(* JavaScript objects with insertion order: sequences of [k, v].           *)
(***************************************************************************)
Keys(obj) == [n \in 1..Len(obj) |-> obj[n].k]

Has(obj, name) == \E n \in 1..Len(obj) : obj[n].k = name

\* obj[name]: undefined when the property is missing
Get(obj, name) ==
    IF Has(obj, name)
    THEN obj[CHOOSE n \in 1..Len(obj) : obj[n].k = name].v
    ELSE Undefined

\* obj[name] = v: in place when the property exists, appended otherwise
Put(obj, name, v) ==
    IF Has(obj, name)
    THEN [n \in 1..Len(obj) |-> IF obj[n].k = name THEN [k |-> name, v |-> v] ELSE obj[n]]
    ELSE Append(obj, [k |-> name, v |-> v])

\* delete obj[name]
RECURSIVE Delete(_, _)
Delete(obj, name) ==
    IF obj = <<>> THEN <<>>
    ELSE IF Head(obj).k = name THEN Delete(Tail(obj), name)
    ELSE <<Head(obj)>> \o Delete(Tail(obj), name)

\* Object.assign(target, source) and { ...target, ...source }
RECURSIVE Assign(_, _)
Assign(target, source) ==
    IF source = <<>> THEN target
    ELSE Assign(Put(target, Head(source).k, Head(source).v), Tail(source))

(***************************************************************************)
(* Request parameter objects: functions from property name to value.       *)
(***************************************************************************)
EmptyObj == <<>>

\* { ...a, ...b }: the properties of b win
Spread(a, b) == b @@ a

\* delete params[name]
Without(params, name) == [p \in (DOMAIN params) \ {name} |-> params[p]]

(***************************************************************************)
(* handleError: the Boom error of a backend error name.                    *)
(***************************************************************************)
BoomNotFound ==
    [isBoom |-> TRUE, name |-> "Error", statusCode |-> 404,
     message |-> "Requested resource not found."]

BoomConflict ==
    [isBoom |-> TRUE, name |-> "Error", statusCode |-> 409,
     message |-> "Requested resource already exists."]

BoomBadImplementation ==
    [isBoom |-> TRUE, name |-> "Error", statusCode |-> 500,
     message |-> "Something went wrong with DB server."]

\* handleError without its ConditionalCheckFailedException case
MutHandleErrorNoConflictCase(error) ==
    CASE error.name = "NotFound" -> BoomNotFound
      [] OTHER -> BoomBadImplementation

handleError(error) ==
    CASE error.name = "NotFound" -> BoomNotFound
      [] error.name = "ConditionalCheckFailedException" -> BoomConflict
      [] OTHER -> BoomBadImplementation

\* an error the store client rejects with
AWSError(name) ==
    [isBoom |-> FALSE, name |-> name, statusCode |-> 400, message |-> name]

\* the TypeError of reading or writing a property of undefined
TypeError ==
    [isBoom |-> FALSE, name |-> "TypeError", statusCode |-> 0,
     message |-> "Cannot read property of undefined"]

NoError == [isBoom |-> FALSE, name |-> "", statusCode |-> 0, message |-> ""]

(***************************************************************************)
(* extendParams: the table name and the capacity flag come last, so they   *)
(* win over the caller's.                                                  *)
(***************************************************************************)
extendParams(params, table) ==
    Spread(params, [TableName |-> table, ReturnConsumedCapacity |-> "INDEXES"])

(***************************************************************************)
(* projectionExpression.  The field list is a string given character by    *)
(* character; split(',') cuts it at every comma.                           *)
(***************************************************************************)
RECURSIVE SplitFrom(_, _)
\* the fields of chars, `cur` being the field read so far
SplitFrom(chars, cur) ==
    IF chars = <<>> THEN <<cur>>
    ELSE IF Head(chars) = "," THEN <<cur>> \o SplitFrom(Tail(chars), <<>>)
    ELSE SplitFrom(Tail(chars), Append(cur, Head(chars)))

\* fields.split(',')
Split(chars) == SplitFrom(chars, <<>>)

RECURSIVE ProjectionLoop(_, _, _)
\* fieldsObj.forEach(...): `i` fields done, `acc` the object built so far
ProjectionLoop(fieldsObj, i, acc) ==
    IF fieldsObj = <<>> THEN acc
    ELSE
        LET field == Flatten(Head(fieldsObj))
            ph == "#" \o field
            expr == IF i = 0
                    THEN acc.ProjectionExpression \o <<ph>>
                    ELSE acc.ProjectionExpression \o <<", ", ph>>
            names == (ph :> field) @@ acc.ExpressionAttributeNames
        IN ProjectionLoop(Tail(fieldsObj), i + 1,
               [ProjectionExpression |-> expr, ExpressionAttributeNames |-> names])

\* What Array.isArray is asked about: "js" reassigns `fields` to the array that
\* split returns; "tsA" and "tsB" keep the array in fieldsObj and test the
\* string parameter `fields`.
IsArrayTested(v) == IF v = "js" THEN "array" ELSE "string"

\* The object projectionExpression returns; [undef |-> TRUE] is the early
\* return (undefined in TypeScript; spreading it adds no property).
projectionExpression(v, fields) ==
    IF IsArrayTested(v) # "array"
    THEN [undef |-> TRUE, obj |-> EmptyObj]
    ELSE [undef |-> FALSE,
          obj |-> ProjectionLoop(Split(fields), 0,
                     [ProjectionExpression |-> <<>>,
                      ExpressionAttributeNames |-> EmptyObj])]

\* params.ProjectionExpression is truthy: present and not the empty string
HasProjection(params) ==
    /\ "ProjectionExpression" \in DOMAIN params
    /\ params.ProjectionExpression # <<>>

\* The get request of findOne(key, originParams).
findOneParams(v, table, k, originParams) ==
    LET projected ==
            IF HasProjection(originParams)
            THEN Spread(originParams,
                        projectionExpression(v, originParams.ProjectionExpression).obj)
            ELSE originParams
    IN IF v = "js"
       THEN extendParams(Spread([Key |-> k], projected), table)
       ELSE extendParams(Spread(projected, [TableName |-> table, Key |-> k]), table)

\* The query request of find(originParams).
findParams(v, table, originParams) ==
    LET projected ==
            IF HasProjection(originParams)
            THEN Spread(originParams,
                        projectionExpression(v, originParams.ProjectionExpression).obj)
            ELSE originParams
    IN extendParams(projected, table)

(***************************************************************************)
(* The schema: undefined, or an object whose id, created and updated       *)
(* properties are truthy or not.                                           *)
(***************************************************************************)
\* this.schema.<flag> throws when the schema is undefined; only "js" reads it
\* without the `this.schema &&` guard
SchemaThrows(v, sch) == v = "js" /\ ~sch.defined

\* this.schema && this.schema.<flag>
Manages(sch, flag) == sch.defined /\ sch[flag]

(***************************************************************************)
(* updateWithAttributes: the update-expression compiler.                   *)
(***************************************************************************)
\* `#param${i}` and `:val${i}`
Param(i) == "#param" \o ToString(i)

Val(i) == ":val" \o ToString(i)

\* if (this.schema.updated) item.updated = new Date().toISOString()
StampUpdated(sch, it, now) ==
    IF Manages(sch, "updated") THEN Put(it, "updated", ISOString(now)) ELSE it

\* the readings of the clock that stamp takes
StampReadings(sch, now) == IF Manages(sch, "updated") THEN <<now>> ELSE <<>>

\* if (item[k]): the test that guards delete item[k]
KeyFieldTruthy(it, name) == Truthy(Get(it, name))

RECURSIVE ExcludeKeys(_, _)
\* keys.forEach(k => { if (item[k]) delete item[k] })
ExcludeKeys(keyNames, it) ==
    IF keyNames = <<>> THEN it
    ELSE ExcludeKeys(Tail(keyNames),
             IF KeyFieldTruthy(it, Head(keyNames)) THEN Delete(it, Head(keyNames)) ELSE it)

\* the item the loop iterates: stamped, then the key fields excluded
ProcessedItem(sch, k, it, now) == ExcludeKeys(Keys(k), StampUpdated(sch, it, now))

UpdateDefaults ==
    [UpdateExpression |-> <<>>,
     ExpressionAttributeNames |-> EmptyObj,
     ExpressionAttributeValues |-> EmptyObj]

\* params before the loop
UpdateBaseParams(v, table, k, originParams) ==
    CASE v = "js" ->
           extendParams(Spread(Spread([Key |-> k], UpdateDefaults), originParams), table)
      [] v = "tsA" ->
           extendParams(Spread(UpdateDefaults, Spread(originParams, [Key |-> k])), table)
      [] OTHER ->
           extendParams(Spread(Spread(originParams, [Key |-> k]), UpdateDefaults), table)

\* the test written as a truthiness test: if (item[valueKey])
MutIsSetValueTruthy(v) == Truthy(v)

\* item[valueKey] !== ''

IsSetValue(v) == ~(v.type = "string" /\ v.val = "")

\* the loop variables before the first field
LoopStart(params) ==
    [i |-> 0, set |-> 0, remove |-> 0,
     SetAction |-> <<" ">>, RemoveAction |-> <<" ">>,
     params |-> params]

\* one turn of Object.keys(item).forEach, for the entry e
LoopStep(v, st, e) ==
    LET i == st.i + 1
        hasNames == v = "js" \/ "ExpressionAttributeNames" \in DOMAIN st.params
        hasValues == v = "js" \/ "ExpressionAttributeValues" \in DOMAIN st.params
        named == IF hasNames
                 THEN [st.params EXCEPT !.ExpressionAttributeNames = (Param(i) :> e.k) @@ @]
                 ELSE st.params
    IN IF IsSetValue(e.v) /\ hasValues
       THEN [st EXCEPT
               !.i = i,
               !.set = st.set + 1,
               !.params = [named EXCEPT !.ExpressionAttributeValues = (Val(i) :> e.v) @@ @],
               !.SetAction = @ \o (IF st.set + 1 = 1
                                   THEN <<"SET ", Param(i), " = ", Val(i)>>
                                   ELSE <<", ", Param(i), " = ", Val(i)>>)]
       ELSE [st EXCEPT
               !.i = i,
               !.remove = st.remove + 1,
               !.params = named,
               !.RemoveAction = @ \o (IF st.remove + 1 = 1
                                      THEN <<"REMOVE ", Param(i)>>
                                      ELSE <<", ", Param(i)>>)]

RECURSIVE Loop(_, _, _)
\* Object.keys(item).forEach(...)
Loop(v, st, entries) ==
    IF entries = <<>> THEN st
    ELSE Loop(v, LoopStep(v, st, Head(entries)), Tail(entries))

\* if (set === 0) delete params.ExpressionAttributeValues;
\* params.UpdateExpression += UpdateExpressionSetAction + UpdateExpressionRemoveAction
Finish(st) ==
    LET dropped == IF st.set = 0
                   THEN Without(st.params, "ExpressionAttributeValues")
                   ELSE st.params
    IN [dropped EXCEPT !.UpdateExpression = @ \o st.SetAction \o st.RemoveAction]

\* The update request of updateWithAttributes, `processed` being the item after
\* the stamp and the key exclusion.
updateWithAttributesParams(v, table, k, processed, originParams) ==
    Finish(Loop(v, LoopStart(UpdateBaseParams(v, table, k, originParams)), processed))

\* the result with the id echoed only under a schema that manages id
MutUpdateWithAttributesResultIdBySchema(v, sch, k, processed, data) ==
    LET base == IF v = "js" THEN data ELSE <<>>
        stamped == IF Manages(sch, "updated")
                   THEN Put(base, "updated", Get(processed, "updated"))
                   ELSE base
    IN IF Manages(sch, "id") THEN Put(stamped, "id", Get(k, "id")) ELSE stamped

\* The object updateWithAttributes resolves with: "js" adds to the store's
\* response, the TypeScript revisions fill a fresh respondData.
updateWithAttributesResult(v, sch, k, processed, data) ==
    LET base == IF v = "js" THEN data ELSE <<>>
        stamped == IF Manages(sch, "updated")
                   THEN Put(base, "updated", Get(processed, "updated"))
                   ELSE base
    IN Put(stamped, "id", Get(k, "id"))

(***************************************************************************)
(* update: the full overwrite.                                             *)
(***************************************************************************)
\* "tsA" writes item.Item.Item.updated, and item.Item.Item is undefined
UpdateThrows(v, sch) ==
    \/ SchemaThrows(v, sch)
    \/ v = "tsA" /\ Manages(sch, "updated")

\* the caller's item object once the request is built
updateItem(v, sch, k, it, now) ==
    CASE v = "js" -> Assign(StampUpdated(sch, it, now), k)
      [] v = "tsA" -> it
      [] OTHER -> StampUpdated(sch, it, now)

\* The put request of update; `after` is updateItem(...).
updateParams(v, table, k, after, originParams) ==
    CASE v = "js" ->
           extendParams(Spread([Item |-> Obj(after)], originParams), table)
      [] v = "tsA" ->
           extendParams(Spread(originParams, [Item |-> Obj(after)]), table)
      [] OTHER ->
           extendParams(Spread(originParams, [Item |-> Obj(Assign(after, k))]), table)

updateResult(v, sch, after, data) ==
    LET base == IF v = "js" THEN data ELSE <<>>
    IN IF Manages(sch, "updated")
       THEN Put(base, "updated", Get(after, "updated"))
       ELSE base

(***************************************************************************)
(* create.                                                                 *)
(***************************************************************************)
\* uuid.v1()
Uuid(n) == Str("uuid-" \o ToString(n))

\* whether the call draws an identifier: "js" by the default parameter
\* (id = uuid.v1(), taken when id is undefined), the others by itemId || uuidV1()
DrawsUuid(v, itemId) ==
    IF v = "js" THEN itemId.type = "undefined" ELSE ~Truthy(itemId)

createId(v, itemId, n) == IF DrawsUuid(v, itemId) THEN Uuid(n) ELSE itemId

\* the generator after the call: every draw hands out the next identifier
uuidAfter(v, itemId, n) == IF DrawsUuid(v, itemId) THEN n + 1 ELSE n

\* the caller's item object once id, created and updated are written;
\* now1 and now2 are the two readings of the clock
createItem(sch, it, id, now1, now2) ==
    LET a == IF Manages(sch, "id") THEN Put(it, "id", id) ELSE it
        b == IF Manages(sch, "created") THEN Put(a, "created", ISOString(now1)) ELSE a
    IN IF Manages(sch, "updated")
       THEN IF Truthy(Get(b, "created"))
            THEN Put(b, "updated", Get(b, "created"))
            ELSE Put(b, "updated", ISOString(now2))
       ELSE b

\* the readings of the clock create takes: one for `created` when the schema
\* manages it, one for `updated` when the schema manages it and item.created
\* is falsy
createReadings(sch, it, now1, now2) ==
    LET first == IF Manages(sch, "created") THEN <<now1>> ELSE <<>>
        created == IF Manages(sch, "created") THEN ISOString(now1) ELSE Get(it, "created")
    IN IF Manages(sch, "updated") /\ ~Truthy(created) THEN first \o <<now2>> ELSE first

\* The put request of create; `after` is createItem(...).
createParams(v, table, after, options) ==
    CASE v = "js" ->
           extendParams(Spread([Item |-> Obj(after)], options), table)
      [] v = "tsA" ->
           extendParams(Spread(options, [Item |-> Obj(after)]), table)
      [] OTHER ->
           extendParams(Spread(options, [TableName |-> table, Item |-> Obj(after)]), table)

createResult(v, sch, after, data) ==
    LET base == IF v = "js" THEN data ELSE <<>>
        a == IF Manages(sch, "id") THEN Put(base, "id", Get(after, "id")) ELSE base
        b == IF Manages(sch, "updated") THEN Put(a, "updated", Get(after, "updated")) ELSE a
    IN IF Manages(sch, "created") THEN Put(b, "created", Get(after, "created")) ELSE b

(***************************************************************************)
(* destroy, batchWrite and scan: the requests.                             *)
(***************************************************************************)
\* The delete request of destroy(key).
destroyParams(table, k) == extendParams([Key |-> k, TableName |-> table], table)

\* The request of batchWrite(params, accountId): the caller's params as they are.
batchWriteParams(params) == params

\* The scan request of scan(originParams).
scanParams(table, originParams) == extendParams(originParams, table)

(***************************************************************************)
(* The logger.                                                             *)
(***************************************************************************)
\* logger.debug(text) and logger.error(text, error.message)
LogDebug(text) == [level |-> "debug", text |-> text]

LogError(text) == [level |-> "error", text |-> text]

(***************************************************************************)
(* How a call's promise settles.                                           *)
(***************************************************************************)
\* the store's answer: none yet, data, or an error
NoAnswer == [status |-> "none", data |-> EmptyObj, error |-> NoError]

Answer(data) == [status |-> "ok", data |-> data, error |-> NoError]

Failure(error) == [status |-> "error", data |-> EmptyObj, error |-> error]

Pending == [status |-> "pending", value |-> Undefined, error |-> NoError]

Resolved(value) == [status |-> "resolved", value |-> value, error |-> NoError]

Rejected(error) == [status |-> "rejected", value |-> Undefined, error |-> error]

\* data.Item of a get response
ItemOf(data) == IF "Item" \in DOMAIN data THEN data.Item ELSE Undefined

\* findOne returning data.Item without the test for it
MutFindOneSettleNoTest(data) == Resolved(ItemOf(data))

\* findOne after the awaited get: the item when there is one, the 404 otherwise
findOneSettle(data) ==
    IF Truthy(ItemOf(data))
    THEN Resolved(ItemOf(data))
    ELSE Rejected(handleError([name |-> "NotFound"]))

\* what findOne logs after the awaited get: nothing when it returns the item,
\* the error entry before it throws the 404
findOneLog(data) ==
    IF Truthy(ItemOf(data)) THEN <<>> ELSE <<LogError("DB_ACTION::get")>>

\* data.Items of a query or scan response
ItemsOf(data) == IF "Items" \in DOMAIN data THEN data.Items ELSE Undefined

\* find and scan after the awaited request: return data.Items
findSettle(data) == Resolved(ItemsOf(data))

scanSettle(data) == Resolved(ItemsOf(data))

\* destroy and batchWrite return the store client's promise without awaiting
\* it: the call settles as that promise does, `r` being the store's answer
returnedPromise(r) ==
    IF r.status = "ok" THEN Resolved(Obj(r.data)) ELSE Rejected(r.error)

\* the catch blocks
findOneCatch(error) == Rejected(error)

scanCatch(error) == Rejected(error)

findCatch(error) == Rejected(error)

\* a catch block that logs the error and does not throw it again
MutCreateCatchSwallows(error) == Resolved(Undefined)

createCatch(error) == Rejected(error)

updateCatch(error) == Rejected(handleError(error))

updateWithAttributesCatch(error) == Rejected(handleError(error))

(***************************************************************************)
(* The inputs the callers and the store draw from.                         *)
(***************************************************************************)
Variants == {"js", "tsA", "tsB"}

NoSchema == [defined |-> FALSE, id |-> FALSE, created |-> FALSE, updated |-> FALSE]

Schemas ==
    {NoSchema} \cup [defined : {TRUE}, id : BOOLEAN, created : BOOLEAN, updated : BOOLEAN]

\* attribute values: the delete sentinel, a string, and 0, which stands for the
\* falsy values that are not the empty string (0, false, null)
AttrValues == {Str(""), Str("Bob"), Num("0")}

AttrNames == {"id", "name", "note"}

\* items of at most MaxFields attributes, in every insertion order
Items ==
    {it \in UNION {[1..n -> [k : AttrNames, v : AttrValues]] : n \in 0..MaxFields} :
        \A m, n \in 1..Len(it) : m # n => it[m].k # it[n].k}

\* what a caller's item holds under `created`: the delete sentinel or a date
CreatedValues == {Str(""), Str("2016-01-01")}

\* items of create: those of Items, and those with a `created` attribute of
\* the caller's own
CreateItems ==
    Items \cup {Append(it, [k |-> "created", v |-> c]) :
                   it \in {x \in Items : Len(x) < MaxFields}, c \in CreatedValues}

CallerKeys ==
    {<<[k |-> "id", v |-> Str("1")]>>,
     <<[k |-> "accountId", v |-> Str("acc")], [k |-> "id", v |-> Str("2")]>>}

\* base parameters of updateWithAttributes: none; a condition with its own
\* placeholders, a table name and a capacity flag; placeholders that spell like
\* the generated ones
UpdateOrigins ==
    << EmptyObj,
       [TableName |-> "other", ReturnConsumedCapacity |-> "NONE",
        ConditionExpression |-> <<"#n = :expected">>,
        ExpressionAttributeNames |-> ("#n" :> "name"),
        ExpressionAttributeValues |-> (":expected" :> Str("Al"))],
       [ConditionExpression |-> <<"#param1 = :val1">>,
        ExpressionAttributeNames |-> ("#param1" :> "status"),
        ExpressionAttributeValues |-> (":val1" :> Str("open"))] >>

\* put options of create and update: none, or a uniqueness precondition with a
\* table name and a capacity flag of the caller's own
PutOrigins ==
    << EmptyObj,
       [TableName |-> "other", ReturnConsumedCapacity |-> "NONE",
        ConditionExpression |-> <<"attribute_not_exists(id)">>] >>

ItemIds == {Undefined, Str(""), Str("caller-1")}

Times == 1..MaxClock

\* field names of a projection list, the empty name among them
ProjFieldNames == {<<>>, <<"a">>, <<"b">>, <<"c">>}

ProjLists == UNION {[1..n -> ProjFieldNames] : n \in 0..MaxProjFields}

RECURSIVE JoinFields(_)
\* the field list as the caller writes it: the names, a comma between them
JoinFields(list) ==
    IF list = <<>> THEN <<>>
    ELSE IF Len(list) = 1 THEN Head(list)
    ELSE Head(list) \o <<",">> \o JoinFields(Tail(list))

\* get parameters of findOne: none, or a field list with a table name and a
\* capacity flag of the caller's own
GetOrigin(list) ==
    IF list = <<>> THEN EmptyObj
    ELSE [TableName |-> "other", ReturnConsumedCapacity |-> "NONE",
          ProjectionExpression |-> JoinFields(list)]

\* query parameters of find, with or without a field list
QueryOrigin(list) ==
    Spread([KeyConditionExpression |-> <<"accountId = :accountId">>,
            ExpressionAttributeValues |-> (":accountId" :> Str("acc"))],
           GetOrigin(list))

\* what the store holds under a key: items, the empty object among them
StoredItems ==
    << <<>>,
       <<[k |-> "id", v |-> Str("1")]>>,
       <<[k |-> "id", v |-> Str("1")], [k |-> "name", v |-> Str("Bob")]>> >>

\* answers to get: without an item, or with one
GetData == << EmptyObj >> \o [n \in 1..Len(StoredItems) |-> [Item |-> Obj(StoredItems[n])]]

\* answers to query
QueryData ==
    << [Items |-> Obj(<<>>), Count |-> Num("0")],
       [Items |-> Obj(StoredItems), Count |-> Num("3"),
        LastEvaluatedKey |-> Obj(<<[k |-> "id", v |-> Str("1")]>>)] >>

\* answers to put and update: the capacity report the request asks for
WriteData == << <<[k |-> "ConsumedCapacity", v |-> Str("units")]>> >>

\* parameters of batchWrite: the write requests per table, with or without a
\* capacity flag of the caller's own
BatchOrigins ==
    << [RequestItems |-> ("shifts" :> <<"DeleteRequest">>)],
       [RequestItems |-> ("shifts" :> <<"PutRequest", "DeleteRequest">>),
        ReturnConsumedCapacity |-> "TOTAL"] >>

\* answers to batchWrite
BatchData == << <<[k |-> "UnprocessedItems", v |-> Obj(<<>>)]>> >>

\* parameters of scan: none, or a limit with a table name and a capacity flag
\* of the caller's own
ScanOrigins ==
    << EmptyObj,
       [Limit |-> Num("10"), TableName |-> "other", ReturnConsumedCapacity |-> "NONE"] >>

\* names of the errors the store client rejects with
StoreErrors == {"ConditionalCheckFailedException", "NotFound", "ValidationException"}

(***************************************************************************)
(* The state machine: one call at a time on one handle.                    *)
(***************************************************************************)
\* `now` holds the readings of the clock the call took (new Date()), in order;
\* `uuid` the identifier the call drew from the generator, undefined when it
\* drew none
NoCall ==
    [op |-> "none", key |-> <<>>, item |-> <<>>, origin |-> EmptyObj,
     itemId |-> Undefined, fields |-> <<>>, now |-> <<>>, uuid |-> Undefined]

\* the frame of a second call on the handle, idle
NoRival ==
    [pc |-> "idle", call |-> NoCall, shares |-> FALSE, item |-> <<>>,
     request |-> <<>>, response |-> NoAnswer, outcome |-> Pending]

Init ==
    /\ variant \in Variants
    /\ tableName = "shifts"
    /\ schema \in Schemas
    /\ pc = "idle"
    /\ call = NoCall
    /\ item = <<>>
    /\ request = <<>>
    /\ response = NoAnswer
    /\ outcome = Pending
    /\ uuidNext = 1
    /\ issued = <<>>
    /\ log = <<>>
    /\ rival = NoRival

Handle == <<variant, tableName, schema>>

\* the call sends `params` with `method` and awaits the answer
Send(method, params) ==
    /\ request' = Append(request, [method |-> method, params |-> params])
    /\ pc' = "awaiting"
    /\ response' = NoAnswer
    /\ outcome' = Pending

\* the call throws before it sends anything
Throw(error) ==
    /\ request' = request
    /\ pc' = "done"
    /\ response' = NoAnswer
    /\ outcome' = Rejected(error)

\* the store answers with `r` and the call settles as `o`
Settle(r, o) ==
    /\ pc' = "done"
    /\ response' = r
    /\ outcome' = o

\* the logger takes `entries`
Log(entries) == log' = log \o entries

FindOneCallOf(lists) ==
    /\ pc = "idle"
    /\ \E k \in CallerKeys, list \in lists :
        /\ call' = [NoCall EXCEPT !.op = "findOne", !.key = k, !.fields = list,
                                  !.origin = GetOrigin(list)]
        /\ Send("get", findOneParams(variant, tableName, k, GetOrigin(list)))
    /\ Log(<<LogDebug("DB_ACTION::get")>>)
    /\ UNCHANGED <<Handle, item, uuidNext, issued, rival>>

FindOneCall == FindOneCallOf(ProjLists)

FindOneFulfilled ==
    /\ pc = "awaiting" /\ call.op = "findOne"
    /\ \E n \in 1..Len(GetData) :
        /\ Settle(Answer(GetData[n]), findOneSettle(GetData[n]))
        /\ Log(findOneLog(GetData[n]))
    /\ UNCHANGED <<Handle, call, item, request, uuidNext, issued, rival>>

FindOneRejected ==
    /\ pc = "awaiting" /\ call.op = "findOne"
    /\ \E name \in StoreErrors : Settle(Failure(AWSError(name)), findOneCatch(AWSError(name)))
    /\ Log(<<LogError("DB_ACTION::get")>>)
    /\ UNCHANGED <<Handle, call, item, request, uuidNext, issued, rival>>

FindCallOf(lists) ==
    /\ pc = "idle"
    /\ \E list \in lists :
        /\ call' = [NoCall EXCEPT !.op = "find", !.fields = list,
                                  !.origin = QueryOrigin(list)]
        /\ Send("query", findParams(variant, tableName, QueryOrigin(list)))
    /\ Log(<<LogDebug("DB_ACTION::query")>>)
    /\ UNCHANGED <<Handle, item, uuidNext, issued, rival>>

FindCall == FindCallOf(ProjLists)

FindFulfilled ==
    /\ pc = "awaiting" /\ call.op = "find"
    /\ \E n \in 1..Len(QueryData) : Settle(Answer(QueryData[n]), findSettle(QueryData[n]))
    /\ Log(<<LogDebug("Count"), LogDebug("ScannedCount"), LogDebug("ConsumedCapacity")>>)
    /\ UNCHANGED <<Handle, call, item, request, uuidNext, issued, rival>>

FindRejected ==
    /\ pc = "awaiting" /\ call.op = "find"
    /\ \E name \in StoreErrors : Settle(Failure(AWSError(name)), findCatch(AWSError(name)))
    /\ Log(<<LogError("DB_ACTION::query")>>)
    /\ UNCHANGED <<Handle, call, item, request, uuidNext, issued, rival>>

CreateCallOf(items, origins) ==
    /\ pc = "idle"
    /\ \E it \in items, itemId \in ItemIds, n \in origins, now1, now2 \in Times :
        /\ now1 <= now2
        /\ DrawsUuid(variant, itemId) => uuidNext <= MaxIds
        /\ uuidNext' = uuidAfter(variant, itemId, uuidNext)
        /\ call' = [NoCall EXCEPT
                      !.op = "create", !.item = it, !.itemId = itemId,
                      !.origin = PutOrigins[n],
                      !.uuid = IF DrawsUuid(variant, itemId) THEN Uuid(uuidNext) ELSE Undefined,
                      !.now = IF SchemaThrows(variant, schema) THEN <<>>
                              ELSE createReadings(schema, it, now1, now2)]
        /\ IF SchemaThrows(variant, schema)
           THEN /\ item' = it
                /\ issued' = issued
                /\ Throw(TypeError)
           ELSE LET after == createItem(schema, it, createId(variant, itemId, uuidNext),
                                        now1, now2)
                IN /\ item' = after
                   /\ issued' = IF Manages(schema, "id") /\ DrawsUuid(variant, itemId)
                                THEN Append(issued, Get(after, "id"))
                                ELSE issued
                   /\ Send("put", createParams(variant, tableName, after, PutOrigins[n]))
    /\ Log(<<LogDebug("DB_ACTION::create")>>)
    /\ UNCHANGED <<Handle, rival>>

CreateCall == CreateCallOf(CreateItems, DOMAIN PutOrigins)

CreateFulfilled ==
    /\ pc = "awaiting" /\ call.op = "create"
    /\ \E n \in 1..Len(WriteData) :
        Settle(Answer(WriteData[n]),
               Resolved(Obj(createResult(variant, schema, item, WriteData[n]))))
    /\ UNCHANGED <<Handle, call, item, request, uuidNext, issued, log, rival>>

CreateRejected ==
    /\ pc = "awaiting" /\ call.op = "create"
    /\ \E name \in StoreErrors : Settle(Failure(AWSError(name)), createCatch(AWSError(name)))
    /\ Log(<<LogError("DB_ACTION::create")>>)
    /\ UNCHANGED <<Handle, call, item, request, uuidNext, issued, rival>>

UpdateCallOf(items, origins) ==
    /\ pc = "idle"
    /\ \E k \in CallerKeys, it \in items, n \in origins, now \in Times :
        /\ call' = [NoCall EXCEPT
                      !.op = "update", !.key = k, !.item = it, !.origin = PutOrigins[n],
                      !.now = IF UpdateThrows(variant, schema) THEN <<>>
                              ELSE StampReadings(schema, now)]
        /\ IF UpdateThrows(variant, schema)
           THEN /\ item' = it
                /\ Throw(TypeError)
           ELSE LET after == updateItem(variant, schema, k, it, now)
                IN /\ item' = after
                   /\ Send("put", updateParams(variant, tableName, k, after, PutOrigins[n]))
    /\ Log(<<LogDebug("DB_ACTION::update")>>)
    /\ UNCHANGED <<Handle, uuidNext, issued, rival>>

UpdateCall == UpdateCallOf(Items, DOMAIN PutOrigins)

UpdateFulfilled ==
    /\ pc = "awaiting" /\ call.op = "update"
    /\ \E n \in 1..Len(WriteData) :
        Settle(Answer(WriteData[n]),
               Resolved(Obj(updateResult(variant, schema, item, WriteData[n]))))
    /\ UNCHANGED <<Handle, call, item, request, uuidNext, issued, log, rival>>

UpdateRejected ==
    /\ pc = "awaiting" /\ call.op = "update"
    /\ \E name \in StoreErrors : Settle(Failure(AWSError(name)), updateCatch(AWSError(name)))
    /\ Log(<<LogError("DB_ACTION::update")>>)
    /\ UNCHANGED <<Handle, call, item, request, uuidNext, issued, rival>>

UpdateWithAttributesCallOf(items, origins) ==
    /\ pc = "idle"
    /\ \E k \in CallerKeys, it \in items, n \in origins, now \in Times :
        /\ call' = [NoCall EXCEPT
                      !.op = "updateWithAttributes", !.key = k, !.item = it,
                      !.origin = UpdateOrigins[n],
                      !.now = IF SchemaThrows(variant, schema) THEN <<>>
                              ELSE StampReadings(schema, now)]
        /\ IF SchemaThrows(variant, schema)
           THEN /\ item' = it
                /\ Throw(TypeError)
           ELSE LET processed == ProcessedItem(schema, k, it, now)
                IN /\ item' = processed
                   /\ Send("update", updateWithAttributesParams(variant, tableName, k,
                                         processed, UpdateOrigins[n]))
    /\ Log(<<LogDebug("DB_ACTION::updateAttributes")>>)
    /\ UNCHANGED <<Handle, uuidNext, issued, rival>>

UpdateWithAttributesCall == UpdateWithAttributesCallOf(Items, DOMAIN UpdateOrigins)

UpdateWithAttributesFulfilled ==
    /\ pc = "awaiting" /\ call.op = "updateWithAttributes"
    /\ \E n \in 1..Len(WriteData) :
        Settle(Answer(WriteData[n]),
               Resolved(Obj(updateWithAttributesResult(variant, schema, call.key, item,
                                                       WriteData[n]))))
    /\ UNCHANGED <<Handle, call, item, request, uuidNext, issued, log, rival>>

UpdateWithAttributesRejected ==
    /\ pc = "awaiting" /\ call.op = "updateWithAttributes"
    /\ \E name \in StoreErrors : Settle(Failure(AWSError(name)), updateWithAttributesCatch(AWSError(name)))
    /\ Log(<<LogError("DB_ACTION::updateAttributes")>>)
    /\ UNCHANGED <<Handle, call, item, request, uuidNext, issued, rival>>

DestroyCall ==
    /\ pc = "idle"
    /\ \E k \in CallerKeys :
        /\ call' = [NoCall EXCEPT !.op = "destroy", !.key = k]
        /\ Send("delete", destroyParams(tableName, k))
    /\ Log(<<LogDebug("DB_ACTION::delete")>>)
    /\ UNCHANGED <<Handle, item, uuidNext, issued, rival>>

\* the promise of the store client is the one destroy returns: the call
\* settles as that promise does and the catch block never runs
DestroyFulfilled ==
    /\ pc = "awaiting" /\ call.op = "destroy"
    /\ \E n \in 1..Len(WriteData) :
        Settle(Answer(WriteData[n]), returnedPromise(Answer(WriteData[n])))
    /\ UNCHANGED <<Handle, call, item, request, uuidNext, issued, log, rival>>

DestroyRejected ==
    /\ pc = "awaiting" /\ call.op = "destroy"
    /\ \E name \in StoreErrors :
        Settle(Failure(AWSError(name)), returnedPromise(Failure(AWSError(name))))
    /\ UNCHANGED <<Handle, call, item, request, uuidNext, issued, log, rival>>

BatchWriteCall ==
    /\ pc = "idle"
    /\ \E n \in 1..Len(BatchOrigins) :
        /\ call' = [NoCall EXCEPT !.op = "batchWrite", !.origin = BatchOrigins[n]]
        /\ Send("batchWrite", batchWriteParams(BatchOrigins[n]))
    /\ Log(<<LogDebug("DB_ACTION::batchWrite")>>)
    /\ UNCHANGED <<Handle, item, uuidNext, issued, rival>>

BatchWriteFulfilled ==
    /\ pc = "awaiting" /\ call.op = "batchWrite"
    /\ \E n \in 1..Len(BatchData) :
        Settle(Answer(BatchData[n]), returnedPromise(Answer(BatchData[n])))
    /\ UNCHANGED <<Handle, call, item, request, uuidNext, issued, log, rival>>

BatchWriteRejected ==
    /\ pc = "awaiting" /\ call.op = "batchWrite"
    /\ \E name \in StoreErrors :
        Settle(Failure(AWSError(name)), returnedPromise(Failure(AWSError(name))))
    /\ UNCHANGED <<Handle, call, item, request, uuidNext, issued, log, rival>>

ScanCall ==
    /\ pc = "idle"
    /\ \E n \in 1..Len(ScanOrigins) :
        /\ call' = [NoCall EXCEPT !.op = "scan", !.origin = ScanOrigins[n]]
        /\ Send("scan", scanParams(tableName, ScanOrigins[n]))
    /\ Log(<<LogDebug("DB_ACTION::scan")>>)
    /\ UNCHANGED <<Handle, item, uuidNext, issued, rival>>

ScanFulfilled ==
    /\ pc = "awaiting" /\ call.op = "scan"
    /\ \E n \in 1..Len(QueryData) : Settle(Answer(QueryData[n]), scanSettle(QueryData[n]))
    /\ UNCHANGED <<Handle, call, item, request, uuidNext, issued, log, rival>>

ScanRejected ==
    /\ pc = "awaiting" /\ call.op = "scan"
    /\ \E name \in StoreErrors : Settle(Failure(AWSError(name)), scanCatch(AWSError(name)))
    /\ Log(<<LogError("DB_ACTION::scan")>>)
    /\ UNCHANGED <<Handle, call, item, request, uuidNext, issued, rival>>

\* the callers have their answers; the handle is free for the next call
Return ==
    /\ pc = "done"
    /\ rival.pc # "awaiting"
    /\ pc' = "idle"
    /\ call' = NoCall
    /\ item' = <<>>
    /\ request' = <<>>
    /\ response' = NoAnswer
    /\ outcome' = Pending
    /\ log' = <<>>
    /\ rival' = NoRival
    /\ UNCHANGED <<Handle, uuidNext, issued>>

Next ==
    \/ FindOneCall \/ FindOneFulfilled \/ FindOneRejected
    \/ FindCall \/ FindFulfilled \/ FindRejected
    \/ CreateCall \/ CreateFulfilled \/ CreateRejected
    \/ UpdateCall \/ UpdateFulfilled \/ UpdateRejected
    \/ UpdateWithAttributesCall \/ UpdateWithAttributesFulfilled \/ UpdateWithAttributesRejected
    \/ DestroyCall \/ DestroyFulfilled \/ DestroyRejected
    \/ BatchWriteCall \/ BatchWriteFulfilled \/ BatchWriteRejected
    \/ ScanCall \/ ScanFulfilled \/ ScanRejected
    \/ Return

Spec == Init /\ [][Next]_vars

\* the read paths alone
NextRead ==
    \/ FindOneCall \/ FindOneFulfilled \/ FindOneRejected
    \/ FindCall \/ FindFulfilled \/ FindRejected
    \/ Return

SpecRead == Init /\ [][NextRead]_vars

\* the update paths alone
NextWrite ==
    \/ UpdateCall \/ UpdateFulfilled \/ UpdateRejected
    \/ UpdateWithAttributesCall \/ UpdateWithAttributesFulfilled \/ UpdateWithAttributesRejected
    \/ Return

SpecWrite == Init /\ [][NextWrite]_vars

\* the create path alone
NextCreate ==
    \/ CreateCall \/ CreateFulfilled \/ CreateRejected
    \/ Return

SpecCreate == Init /\ [][NextCreate]_vars

\* every operation on one handle, the write calls taking at most
\* MaxLightFields attributes and no options
CreateCallLight == CreateCallOf({it \in CreateItems : Len(it) <= MaxLightFields}, {1})

UpdateCallLight == UpdateCallOf({it \in Items : Len(it) <= MaxLightFields}, {1})

UpdateWithAttributesCallLight ==
    UpdateWithAttributesCallOf({it \in Items : Len(it) <= MaxLightFields}, {1})

NextOps ==
    \/ FindOneCall \/ FindOneFulfilled \/ FindOneRejected
    \/ FindCall \/ FindFulfilled \/ FindRejected
    \/ CreateCallLight \/ CreateFulfilled \/ CreateRejected
    \/ UpdateCallLight \/ UpdateFulfilled \/ UpdateRejected
    \/ UpdateWithAttributesCallLight \/ UpdateWithAttributesFulfilled
    \/ UpdateWithAttributesRejected
    \/ DestroyCall \/ DestroyFulfilled \/ DestroyRejected
    \/ BatchWriteCall \/ BatchWriteFulfilled \/ BatchWriteRejected
    \/ ScanCall \/ ScanFulfilled \/ ScanRejected
    \/ Return

SpecOps == Init /\ [][NextOps]_vars

(***************************************************************************)
(* Two calls on one handle.  A call runs without interruption up to its    *)
(* await; while the first call awaits the store, a second call (the rival) *)
(* runs its own synchronous part, and the store answers the two in any     *)
(* order.  The rival is given an item object of its own, or the object the *)
(* first call was given: every operation writes into the caller's object   *)
(* and reads its result from it after the await.                           *)
(***************************************************************************)
\* what a rival is given when the item object is its own
RivalItems == {<<[k |-> "name", v |-> Str("Bob")]>>}

RivalIds == {Undefined, Str("caller-2")}

RivalKey == <<[k |-> "id", v |-> Str("2")]>>

\* the error the store rejects a rival's request with
RivalErrors == {"ConditionalCheckFailedException"}

\* the first call awaits the answer to a create, update or updateWithAttributes
\* and no rival has started
RivalMayStart ==
    /\ pc = "awaiting"
    /\ call.op \in {"create", "update", "updateWithAttributes"}
    /\ rival.pc = "idle"

\* the clock does not run backwards: the readings a rival can take
RivalTimes == {t \in Times : \A n \in 1..Len(call.now) : call.now[n] <= t}

\* the rival has run up to its await: `c` is its call, `obj` the item object as
\* the rival leaves it, `method` and `params` its request
RivalStarts(c, shares, obj, method, params) ==
    /\ rival' = [pc |-> "awaiting", call |-> c, shares |-> shares,
                 item |-> IF shares THEN <<>> ELSE obj,
                 request |-> <<[method |-> method, params |-> params]>>,
                 response |-> NoAnswer, outcome |-> Pending]
    /\ item' = IF shares THEN obj ELSE item

\* the item object the rival reads after its await
RivalItem == IF rival.shares THEN item ELSE rival.item

RivalCreateCall ==
    /\ RivalMayStart
    /\ ~SchemaThrows(variant, schema)
    /\ \E shares \in BOOLEAN, own \in RivalItems, itemId \in RivalIds, now \in RivalTimes :
        LET it == IF shares THEN item ELSE own
            after == createItem(schema, it, createId(variant, itemId, uuidNext), now, now)
            c == [NoCall EXCEPT
                    !.op = "create", !.item = it, !.itemId = itemId,
                    !.uuid = IF DrawsUuid(variant, itemId) THEN Uuid(uuidNext) ELSE Undefined,
                    !.now = createReadings(schema, it, now, now)]
        IN /\ DrawsUuid(variant, itemId) => uuidNext <= MaxIds
           /\ uuidNext' = uuidAfter(variant, itemId, uuidNext)
           /\ issued' = IF Manages(schema, "id") /\ DrawsUuid(variant, itemId)
                        THEN Append(issued, Get(after, "id"))
                        ELSE issued
           /\ RivalStarts(c, shares, after, "put",
                          createParams(variant, tableName, after, EmptyObj))
    /\ Log(<<LogDebug("DB_ACTION::create")>>)
    /\ UNCHANGED <<Handle, pc, call, request, response, outcome>>

RivalUpdateCall ==
    /\ RivalMayStart
    /\ ~UpdateThrows(variant, schema)
    /\ \E shares \in BOOLEAN, own \in RivalItems, now \in RivalTimes :
        LET it == IF shares THEN item ELSE own
            after == updateItem(variant, schema, RivalKey, it, now)
            c == [NoCall EXCEPT
                    !.op = "update", !.key = RivalKey, !.item = it,
                    !.now = StampReadings(schema, now)]
        IN RivalStarts(c, shares, after, "put",
                       updateParams(variant, tableName, RivalKey, after, EmptyObj))
    /\ Log(<<LogDebug("DB_ACTION::update")>>)
    /\ UNCHANGED <<Handle, pc, call, request, response, outcome, uuidNext, issued>>

RivalUpdateWithAttributesCall ==
    /\ RivalMayStart
    /\ ~SchemaThrows(variant, schema)
    /\ \E shares \in BOOLEAN, own \in RivalItems, now \in RivalTimes :
        LET it == IF shares THEN item ELSE own
            processed == ProcessedItem(schema, RivalKey, it, now)
            c == [NoCall EXCEPT
                    !.op = "updateWithAttributes", !.key = RivalKey, !.item = it,
                    !.now = StampReadings(schema, now)]
        IN RivalStarts(c, shares, processed, "update",
                       updateWithAttributesParams(variant, tableName, RivalKey,
                                                  processed, EmptyObj))
    /\ Log(<<LogDebug("DB_ACTION::updateAttributes")>>)
    /\ UNCHANGED <<Handle, pc, call, request, response, outcome, uuidNext, issued>>

\* the object the rival resolves with when the store answers with `data`
RivalResult(data) ==
    CASE rival.call.op = "create" -> createResult(variant, schema, RivalItem, data)
      [] rival.call.op = "update" -> updateResult(variant, schema, RivalItem, data)
      [] OTHER -> updateWithAttributesResult(variant, schema, rival.call.key,
                                             RivalItem, data)

\* the catch block of the rival's operation
RivalCatch(error) ==
    CASE rival.call.op = "create" -> createCatch(error)
      [] rival.call.op = "update" -> updateCatch(error)
      [] OTHER -> updateWithAttributesCatch(error)

RivalFulfilled ==
    /\ rival.pc = "awaiting"
    /\ \E n \in 1..Len(WriteData) :
        rival' = [rival EXCEPT
                    !.pc = "done",
                    !.response = Answer(WriteData[n]),
                    !.outcome = Resolved(Obj(RivalResult(WriteData[n])))]
    /\ UNCHANGED <<Handle, pc, call, item, request, response, outcome, uuidNext, issued, log>>

RivalRejected ==
    /\ rival.pc = "awaiting"
    /\ \E name \in RivalErrors :
        rival' = [rival EXCEPT
                    !.pc = "done",
                    !.response = Failure(AWSError(name)),
                    !.outcome = RivalCatch(AWSError(name))]
    /\ Log(<<LogError("DB_ACTION::" \o rival.call.op)>>)
    /\ UNCHANGED <<Handle, pc, call, item, request, response, outcome, uuidNext, issued>>

\* the first call takes few attributes and no options
NextConcurrent ==
    \/ CreateCallLight \/ CreateFulfilled \/ CreateRejected
    \/ UpdateCallLight \/ UpdateFulfilled \/ UpdateRejected
    \/ UpdateWithAttributesCallLight \/ UpdateWithAttributesFulfilled
    \/ UpdateWithAttributesRejected
    \/ RivalCreateCall \/ RivalUpdateCall \/ RivalUpdateWithAttributesCall
    \/ RivalFulfilled \/ RivalRejected
    \/ Return

SpecConcurrent == Init /\ [][NextConcurrent]_vars

(***************************************************************************)
(* Reading the request a call sent.                                        *)
(***************************************************************************)
Sent == Len(request) >= 1

Req == request[1].params

\* an updateWithAttributes call that has sent its request; `item` then holds
\* the attribute map the compiler iterated
InUpdateWithAttributes == call.op = "updateWithAttributes" /\ Sent

KeyNames(k) == {k[n].k : n \in 1..Len(k)}

RECURSIVE NonKeyFields(_, _)
\* the entries of `it` whose name is no field of the key, in order
NonKeyFields(it, k) ==
    IF it = <<>> THEN <<>>
    ELSE IF Head(it).k \in KeyNames(k) THEN NonKeyFields(Tail(it), k)
    ELSE <<Head(it)>> \o NonKeyFields(Tail(it), k)

RECURSIVE ClauseTokens(_, _, _)
\* the fragments of an update expression that follow the keyword of clause
\* `want` ("SET " or "REMOVE ") up to the next keyword
ClauseTokens(text, mode, want) ==
    IF text = <<>> THEN <<>>
    ELSE LET t == Head(text)
             isKeyword == t \in {"SET ", "REMOVE "}
             m == IF isKeyword THEN t ELSE mode
         IN (IF m = want /\ ~isKeyword THEN <<t>> ELSE <<>>)
            \o ClauseTokens(Tail(text), m, want)

RECURSIVE Resolve(_, _)
\* the attribute names the name placeholders among `tokens` stand for
Resolve(tokens, names) ==
    IF tokens = <<>> THEN <<>>
    ELSE (IF Head(tokens) \in DOMAIN names THEN <<names[Head(tokens)]>> ELSE <<>>)
         \o Resolve(Tail(tokens), names)

\* the attributes the SET clause assigns and the REMOVE clause removes
SetFields == Resolve(ClauseTokens(Req.UpdateExpression, "", "SET "), Req.ExpressionAttributeNames)

RemoveFields ==
    Resolve(ClauseTokens(Req.UpdateExpression, "", "REMOVE "), Req.ExpressionAttributeNames)

Occurrences(f, fields) == Cardinality({n \in 1..Len(fields) : fields[n] = f})

HasKeyword(kw) == \E n \in 1..Len(Req.UpdateExpression) : Req.UpdateExpression[n] = kw

HasValues == "ExpressionAttributeValues" \in DOMAIN Req

Range(f) == {f[x] : x \in DOMAIN f}

(***************************************************************************)
(* C1..C6: the update-expression compiler.                                 *)
(***************************************************************************)
\* C1: every attribute of the compiled map that is no key field occurs once,
\* in the SET clause or in the REMOVE clause and not in both, and it is in
\* REMOVE exactly when its value is the empty string.  The map is the one the
\* compiler iterates, after the `updated` stamp.
C1_SetXorRemoveByValue ==
    InUpdateWithAttributes =>
        \A n \in 1..Len(item) :
            item[n].k \notin KeyNames(call.key) =>
                LET inSet == Occurrences(item[n].k, SetFields)
                    inRemove == Occurrences(item[n].k, RemoveFields)
                IN /\ inSet + inRemove = 1
                   /\ inRemove = 1 <=> item[n].v = Str("")

\* C1 acted: a request that removes one attribute and sets another to 0
C1_Witness ==
    /\ InUpdateWithAttributes
    /\ \E m, n \in 1..Len(item) :
        /\ item[m].k \notin KeyNames(call.key) /\ item[m].v = Str("")
        /\ item[n].k \notin KeyNames(call.key) /\ item[n].v = Num("0")
        /\ Occurrences(item[m].k, RemoveFields) = 1
        /\ Occurrences(item[n].k, SetFields) = 1

\* C2: no attribute of the caller's map that is also a field of the key is
\* registered in ExpressionAttributeNames or named by the SET or REMOVE clause.
C2_KeyFieldsNeverCompiled ==
    InUpdateWithAttributes =>
        \A n \in 1..Len(call.item) :
            call.item[n].k \in KeyNames(call.key) =>
                /\ call.item[n].k \notin Range(Req.ExpressionAttributeNames)
                /\ Occurrences(call.item[n].k, SetFields) = 0
                /\ Occurrences(call.item[n].k, RemoveFields) = 0

\* C3: the k-th non-key attribute of the compiled map has the name placeholder
\* #param{k} and, when it is set, the value placeholder :val{k}; and key
\* {id: "1"} with {name: "Bob", note: ""} sends the expression of the scenario.
C3_PlaceholderNumbering ==
    InUpdateWithAttributes =>
        /\ LET fields == NonKeyFields(item, call.key)
           IN \A k \in 1..Len(fields) :
                /\ Param(k) \in DOMAIN Req.ExpressionAttributeNames
                /\ Req.ExpressionAttributeNames[Param(k)] = fields[k].k
                /\ IsSetValue(fields[k].v) =>
                      /\ HasValues
                      /\ Val(k) \in DOMAIN Req.ExpressionAttributeValues
                      /\ Req.ExpressionAttributeValues[Val(k)] = fields[k].v
        /\ ( /\ call.key = <<[k |-> "id", v |-> Str("1")]>>
             /\ call.item = <<[k |-> "name", v |-> Str("Bob")], [k |-> "note", v |-> Str("")]>>
             /\ DOMAIN call.origin = {}
             /\ ~Manages(schema, "updated") )
           => /\ Flatten(Req.UpdateExpression) = " SET #param1 = :val1 REMOVE #param2"
              /\ Req.ExpressionAttributeNames = ("#param1" :> "name") @@ ("#param2" :> "note")
              /\ HasValues
              /\ Req.ExpressionAttributeValues = (":val1" :> Str("Bob"))

\* C4: when the compiled map has non-key attributes and all of them are the
\* empty string, the request has no ExpressionAttributeValues property, a
\* REMOVE clause and no SET clause; when one of them is set, the property is
\* there with an entry for every set attribute.
C4_ValuesOmittedIffNothingSet ==
    InUpdateWithAttributes =>
        LET fields == NonKeyFields(item, call.key)
            setAt == {k \in 1..Len(fields) : IsSetValue(fields[k].v)}
        IN /\ (fields # <<>> /\ setAt = {}) =>
                 /\ ~HasValues
                 /\ HasKeyword("REMOVE ")
                 /\ ~HasKeyword("SET ")
           /\ setAt # {} =>
                 /\ HasValues
                 /\ \A k \in setAt :
                      \E ph \in DOMAIN Req.ExpressionAttributeValues :
                          /\ Req.ExpressionAttributeValues[ph] = fields[k].v
                          /\ ph \in Range(ClauseTokens(Req.UpdateExpression, "", "SET "))

\* C5: a call whose map is empty after the key exclusion sends nothing to the
\* store and is rejected.
C5_EmptyMapRejectedUnsent ==
    ( /\ call.op = "updateWithAttributes"
      /\ ~SchemaThrows(variant, schema)
      /\ item = <<>> )
    => /\ ~Sent
       /\ outcome.status = "rejected"

\* C6: every entry of the caller's ExpressionAttributeNames and
\* ExpressionAttributeValues is in the request with the caller's value.
C6_CallerEntriesKept ==
    InUpdateWithAttributes =>
        /\ "ExpressionAttributeNames" \in DOMAIN call.origin =>
              \A ph \in DOMAIN call.origin.ExpressionAttributeNames :
                  /\ ph \in DOMAIN Req.ExpressionAttributeNames
                  /\ Req.ExpressionAttributeNames[ph] = call.origin.ExpressionAttributeNames[ph]
        /\ "ExpressionAttributeValues" \in DOMAIN call.origin =>
              /\ HasValues
              /\ \A ph \in DOMAIN call.origin.ExpressionAttributeValues :
                  /\ ph \in DOMAIN Req.ExpressionAttributeValues
                  /\ Req.ExpressionAttributeValues[ph] = call.origin.ExpressionAttributeValues[ph]

(***************************************************************************)
(* C7, C8: the read paths.                                                 *)
(***************************************************************************)
RECURSIVE PlaceholderList(_)
\* "#f1, #f2, ..." for the field names of `list`, in order
PlaceholderList(list) ==
    IF Len(list) = 1 THEN "#" \o Flatten(Head(list))
    ELSE "#" \o Flatten(Head(list)) \o ", " \o PlaceholderList(Tail(list))

\* C7: when the caller gives a field list, findOne and find send the
\* expression that lists #f for every field f of the list, in the list's
\* order and joined by ", ", and the names map that takes every #f to f;
\* "a,b,c" gives "#a, #b, #c".
C7_ProjectionSent ==
    ( /\ call.op \in {"findOne", "find"}
      /\ Sent
      /\ HasProjection(call.origin) )
    => /\ Flatten(Req.ProjectionExpression) = PlaceholderList(call.fields)
       /\ "ExpressionAttributeNames" \in DOMAIN Req
       /\ DOMAIN Req.ExpressionAttributeNames =
              {"#" \o Flatten(call.fields[n]) : n \in 1..Len(call.fields)}
       /\ \A n \in 1..Len(call.fields) :
              Req.ExpressionAttributeNames["#" \o Flatten(call.fields[n])]
                  = Flatten(call.fields[n])
       /\ call.fields = << <<"a">>, <<"b">>, <<"c">> >>
              => Flatten(Req.ProjectionExpression) = "#a, #b, #c"

\* C8: when the store answers the get without an item, findOne rejects with
\* the 404 error; when it answers with an item, findOne resolves with that
\* item; findOne never resolves with undefined.
C8_FindOneNotFound ==
    (call.op = "findOne" /\ pc = "done") =>
        /\ response.status = "ok" =>
              IF "Item" \in DOMAIN response.data
              THEN outcome = Resolved(response.data.Item)
              ELSE /\ outcome.status = "rejected"
                   /\ outcome.error.isBoom
                   /\ outcome.error.statusCode = 404
        /\ outcome.status = "resolved" => outcome.value.type # "undefined"

\* C8 acted: the store answered without an item and the call was rejected
C8_Witness ==
    /\ call.op = "findOne" /\ pc = "done"
    /\ response.status = "ok"
    /\ "Item" \notin DOMAIN response.data
    /\ outcome.status = "rejected"
    /\ outcome.error.statusCode = 404

(***************************************************************************)
(* C9, C10: the errors of the write paths.                                 *)
(***************************************************************************)
\* the status code of the domain kind a backend error name stands for
DomainStatus(name) ==
    CASE name = "ConditionalCheckFailedException" -> 409
      [] name = "NotFound" -> 404
      [] OTHER -> 500

\* C9: when the store rejects the write of update or updateWithAttributes,
\* the call rejects with a Boom error: 409 for ConditionalCheckFailedException,
\* 404 for NotFound, 500 for anything else; never with the store's own error.
C9_WriteErrorsMapped ==
    ( /\ call.op \in {"update", "updateWithAttributes"}
      /\ pc = "done"
      /\ response.status = "error" )
    => /\ outcome.status = "rejected"
       /\ outcome.error.isBoom
       /\ outcome.error # response.error
       /\ outcome.error.statusCode = DomainStatus(response.error.name)

\* C9 acted: a conditional write of update was refused and came out as 409
C9_Witness ==
    /\ call.op = "update" /\ pc = "done"
    /\ response.status = "error"
    /\ response.error.name = "ConditionalCheckFailedException"
    /\ outcome.error.statusCode = 409

\* C10: when the store refuses the put of create with
\* ConditionalCheckFailedException, create rejects with the 409 Boom error.
C10_CreateConflict ==
    ( /\ call.op = "create"
      /\ pc = "done"
      /\ response.status = "error"
      /\ response.error.name = "ConditionalCheckFailedException" )
    => /\ outcome.status = "rejected"
       /\ outcome.error.isBoom
       /\ outcome.error.statusCode = 409

(***************************************************************************)
(* C11..C13: the field lifecycle of create.                                *)
(***************************************************************************)
\* a create call that has sent its request; `item` then holds the caller's
\* item object as create has written it
InCreate == call.op = "create" /\ Sent

\* the record the put request carries
Written == Req.Item.val

\* the object a resolved call handed back
Result == outcome.value.val

\* C11: in create under a schema that manages updated, when the schema also
\* manages created the written and the returned updated equal the created
\* stamp of this call; when it does not, updated is the reading the call took
\* of the clock, whatever the caller's item holds under `created`.
C11_CreateUpdatedStamp ==
    (InCreate /\ Manages(schema, "updated")) =>
        /\ call.now # <<>>
        /\ Get(Written, "updated") = ISOString(call.now[Len(call.now)])
        /\ Manages(schema, "created") =>
              /\ Get(Written, "created") = ISOString(call.now[1])
              /\ Get(Written, "updated") = Get(Written, "created")
        /\ outcome.status = "resolved" =>
              /\ Get(Result, "updated") = Get(Written, "updated")
              /\ Manages(schema, "created") =>
                    Get(Result, "created") = Get(Result, "updated")

\* the fields among id, created and updated that the schema manages
ManagedFields == {f \in {"id", "created", "updated"} : Manages(schema, f)}

\* C12: a create that resolves hands back an object whose fields are exactly
\* the fields among id, created and updated that the schema manages, each
\* with the value written to the store; nothing of the store's response.
C12_CreateResultFields ==
    (InCreate /\ outcome.status = "resolved") =>
        /\ Range(Keys(Result)) = ManagedFields
        /\ \A f \in ManagedFields : Get(Result, f) = Get(Written, f)

\* C13: in create under a schema that manages id, when the caller supplies an
\* identifier (a non-empty string) the written and the returned id are that
\* identifier; when it supplies none (undefined, or the empty string) the id
\* is a non-empty identifier the call drew from the generator; and no two of
\* the generated ids written so far are equal.
C13_CreateId ==
    /\ (InCreate /\ Manages(schema, "id")) =>
          /\ IF Truthy(call.itemId)
             THEN Get(Written, "id") = call.itemId
             ELSE /\ Get(Written, "id").type = "string"
                  /\ Get(Written, "id").val # ""
                  /\ Get(Written, "id") = call.uuid
          /\ outcome.status = "resolved" => Get(Result, "id") = Get(Written, "id")
    /\ \A m, n \in 1..Len(issued) : m # n => issued[m] # issued[n]

(***************************************************************************)
(* C14, C15: update and the result of updateWithAttributes.                *)
(***************************************************************************)
\* C14: every update call sends a record; where the revision takes a key
\* ("js", "tsB") the record holds every key attribute with the key's value,
\* also when the caller's item has a field of that name; and when the schema
\* manages updated the record's updated is the reading the call took of the
\* clock.
C14_UpdateRecord ==
    (call.op = "update" /\ pc # "idle" /\ ~SchemaThrows(variant, schema)) =>
        /\ Sent
        /\ variant # "tsA" =>
              \A n \in 1..Len(call.key) : Get(Written, call.key[n].k) = call.key[n].v
        /\ Manages(schema, "updated") =>
              /\ call.now # <<>>
              /\ Get(Written, "updated") = ISOString(call.now[1])

\* C15: an updateWithAttributes that resolves hands back an object whose id is
\* the id attribute of the key the call was given, under every schema and
\* under none, and that has an updated field exactly when the schema manages
\* updated.
C15_UpdateWithAttributesResult ==
    (call.op = "updateWithAttributes" /\ outcome.status = "resolved") =>
        /\ Has(Result, "id")
        /\ Get(Result, "id") = Get(call.key, "id")
        /\ Has(Result, "updated") <=> Manages(schema, "updated")

\* C15 acted: a handle without a schema resolved a partial update under the
\* two-part key and echoed the key's id, with no updated field
C15_Witness ==
    /\ call.op = "updateWithAttributes" /\ outcome.status = "resolved"
    /\ ~schema.defined
    /\ Len(call.key) = 2
    /\ Get(Result, "id") = Str("2")
    /\ ~Has(Result, "updated")

(***************************************************************************)
(* C16..C19: the requests, the answers and the log of every operation.     *)
(***************************************************************************)
\* C16: the request of every operation carries TableName with the handle's
\* table name and ReturnConsumedCapacity with 'INDEXES', whatever the caller's
\* parameters say.
C16_TableAndCapacityOnEveryRequest ==
    \A n \in 1..Len(request) :
        /\ "TableName" \in DOMAIN request[n].params
        /\ request[n].params.TableName = tableName
        /\ "ReturnConsumedCapacity" \in DOMAIN request[n].params
        /\ request[n].params.ReturnConsumedCapacity = "INDEXES"

\* C17: a find whose query the store answers sends that one query and
\* resolves; and when the answer carries a pagination token (LastEvaluatedKey)
\* the caller gets it: what find hands back is not what it hands back for the
\* same page without a token.
C17_FindHandsBackToken ==
    (call.op = "find" /\ pc = "done" /\ response.status = "ok") =>
        /\ Len(request) = 1
        /\ request[1].method = "query"
        /\ outcome.status = "resolved"
        /\ "LastEvaluatedKey" \in DOMAIN response.data =>
              outcome.value # findSettle(Without(response.data, "LastEvaluatedKey")).value

\* the number of entries of `level` in the log
Entries(level) == Cardinality({n \in 1..Len(log) : log[n].level = level})

\* the call failed: the store rejected its request, or findOne found no item
CallFailed ==
    /\ pc = "done"
    /\ \/ response.status = "error"
       \/ call.op = "findOne" /\ response.status = "ok" /\ ~Truthy(ItemOf(response.data))

\* C18: a call logs one debug entry as it starts, before anything else; and a
\* call that failed has logged exactly one error entry and is rejected.
C18_OneDebugOneErrorEntry ==
    /\ pc # "idle" =>
          /\ Len(log) >= 1
          /\ log[1].level = "debug"
          /\ pc = "awaiting" => Len(log) = 1
    /\ CallFailed =>
          /\ outcome.status = "rejected"
          /\ Entries("error") = 1

\* C19: a call hands at most one request to the store; when the store rejects
\* the request the call is rejected; and a call resolves only when the store
\* has answered its one request with success.
C19_OneRequestNoRetry ==
    /\ Len(request) <= 1
    /\ response.status = "error" => outcome.status = "rejected"
    /\ outcome.status = "resolved" =>
          /\ Len(request) = 1
          /\ response.status = "ok"

\* C19 acted: the store rejected the put of a create, and the delete of a
\* destroy, each sent once, and the call came out rejected
C19_Witness ==
    /\ call.op \in {"create", "destroy"}
    /\ Len(request) = 1
    /\ response.status = "error"
    /\ outcome.status = "rejected"

(***************************************************************************)
(* C20: two calls on one handle.                                           *)
(***************************************************************************)
\* the one reading of the clock the call `c` took (1 when it took none)
ReadingOf(c) == IF c.now = <<>> THEN 1 ELSE c.now[1]

\* the identifier create settles on in the call `c`
IdOf(c) == IF c.uuid.type # "undefined" THEN c.uuid ELSE c.itemId

\* the item object as the call `c` leaves it when it runs alone on its inputs
AloneItem(c) ==
    CASE c.op = "create" ->
           createItem(schema, c.item, IdOf(c), ReadingOf(c), ReadingOf(c))
      [] c.op = "update" ->
           updateItem(variant, schema, c.key, c.item, ReadingOf(c))
      [] OTHER ->
           ProcessedItem(schema, c.key, c.item, ReadingOf(c))

\* the request the call `c` sends when it runs alone on its inputs
AloneRequest(c) ==
    CASE c.op = "create" ->
           createParams(variant, tableName, AloneItem(c), c.origin)
      [] c.op = "update" ->
           updateParams(variant, tableName, c.key, AloneItem(c), c.origin)
      [] OTHER ->
           updateWithAttributesParams(variant, tableName, c.key, AloneItem(c), c.origin)

\* the object the call `c` resolves with when it runs alone on its inputs and
\* the store answers with `data`
AloneResult(c, data) ==
    CASE c.op = "create" -> createResult(variant, schema, AloneItem(c), data)
      [] c.op = "update" -> updateResult(variant, schema, AloneItem(c), data)
      [] OTHER -> updateWithAttributesResult(variant, schema, c.key, AloneItem(c), data)

WriteOps == {"create", "update", "updateWithAttributes"}

\* C20: of two calls of create, update or updateWithAttributes that run
\* together on one handle, whatever the order of the store's answers, each
\* sends the request and resolves with the result it sends and resolves with
\* when it runs alone on the same inputs and clock readings; and the handle's
\* table name is the one it was constructed with.
C20_ConcurrentCallsIndependent ==
    /\ tableName = "shifts"
    /\ (call.op \in WriteOps /\ Sent) => Req = AloneRequest(call)
    /\ (call.op \in WriteOps /\ outcome.status = "resolved") =>
          outcome.value = Obj(AloneResult(call, response.data))
    /\ rival.pc # "idle" => rival.request[1].params = AloneRequest(rival.call)
    /\ rival.outcome.status = "resolved" =>
          rival.outcome.value = Obj(AloneResult(rival.call, rival.response.data))

====
